---- MODULE Spec2Model ----
(***************************************************************************)
(* The typed facade HighLevel<T, D, M> of the usearch Rust binding         *)
(* (src/rust/highlevel.rs), its parallel batch insertion                   *)
(* (src/rust/batch_insert.rs), the metric capability (src/rust/metric.rs)  *)
(* and the half-precision quantization adapter with its trampolines        *)
(* (src/rust/f16_precision.rs).                                            *)
(*                                                                         *)
(* The native engine and the Index wrapper of lib.rs are not among the     *)
(* source files; the operators named Engine... and Index... model them     *)
(* from the specification's description of the engine's call interface.    *)
(***************************************************************************)
EXTENDS Integers, Sequences, FiniteSets, TLC

\* ------------------------------------------------------------ constants
\* const D: usize, the facade's compile-time dimension
D == 2
\* keys are 1..MaxKey
MaxKey == 2
\* longest batch handed to batch_insert
MaxBatch == 2
\* threads of the worker pool
NumWorkers == 2
\* largest n handed to reserve, largest count handed to a search
MaxReserve == 2
\* an i16 is 16 bits wide
I16Bits == 16

Keys == 1..MaxKey

\* half::f16 / half::bf16 values, as the 16 bits they hold: 1.0 and -1.0
\* in IEEE half precision (the second has the sign bit set)
HalfOne == 15 * 1024
HalfMinusOne == 32768 + 15 * 1024
HalfBits == {HalfOne, HalfMinusOne}

ScalarTypes == {"f16", "bf16"}

\* The metric types: two of the builtin ones of define_metric_type! and two
\* user-defined ones that override custom_metric.
\* CustomA keeps the trait's default get_kind, CustomB overrides it too.
BuiltinMetricTypes == {"IP", "Cos"}
CustomMetricTypes == {"CustomA", "CustomB"}
MetricTypes == BuiltinMetricTypes \cup CustomMetricTypes

NoClosure == "None"

\* MetricType::get_kind: MetricKind::Unknown by default; a metric type of
\* define_metric_type! reports the kind of its own name.
get_kind(m) ==
    IF m \in BuiltinMetricTypes THEN m
    ELSE IF m = "CustomB" THEN "IP"
    ELSE "Unknown"

\* MetricType::custom_metric: None by default; a user-defined metric type
\* returns its boxed distance closure (named after the type here).
custom_metric(m) == IF m \in CustomMetricTypes THEN "closure_" \o m ELSE NoClosure

\* VectorType::quant_type of the two half-precision types
quant_type(t) == IF t = "f16" THEN "F16" ELSE "BF16"

ScalarKinds == {"F16", "BF16", "F32"}

\* ------------------------------------------------- bit reinterpretation
\* bytemuck::cast_slice between [f16] / [bf16] and [i16]: the same 16 bits
\* read as a two's complement integer, and back.
Pow2(n) == 2 ^ n

BitsToI16(u) == IF u >= Pow2(I16Bits - 1) THEN u - Pow2(I16Bits) ELSE u

I16ToBits(i) == IF i < 0 THEN i + Pow2(I16Bits) ELSE i

to_i16s(slice) == [j \in 1..Len(slice) |-> BitsToI16(slice[j])]

from_i16s(slice) == [j \in 1..Len(slice) |-> I16ToBits(slice[j])]

I16Words == {BitsToI16(u) : u \in HalfBits}

\* The vectors callers pass: two of length D that differ in the order of
\* their words, one too short and one too long.
InputVectors ==
    { <<HalfOne, HalfMinusOne>>, <<HalfMinusOne, HalfOne>>,
      <<HalfOne>>, <<HalfOne, HalfMinusOne, HalfOne>> }

ValidVectors == {v \in InputVectors : Len(v) = D}

\* ------------------------------------------------------------ the engine
\* (modelled from the specification: its code is not among the sources)

EmptyStore == [k \in Keys |-> <<>>]

RECURSIVE SumLen(_, _)
SumLen(st, ks) ==
    IF ks = {} THEN 0
    ELSE LET k == CHOOSE x \in ks : TRUE
         IN Len(st[k]) + SumLen(st, ks \ {k})

\* size(): the number of vectors in the index
EngineSize(st) == SumLen(st, Keys)

\* count(key) and contains(key)
EngineCount(st, k) == Len(st[k])

EngineContains(st, k) == Len(st[k]) > 0

\* What the engine reads when handed the data pointer of a slice: the
\* dimensions() words that start there. A slice longer than that is cut; a
\* shorter one is read past its end, which yields whatever words follow in
\* memory (tail) or faults.
OutOfBounds(words, dims) ==
    IF Len(words) >= dims
    THEN {[crash |-> FALSE, tail |-> <<>>]}
    ELSE {[crash |-> FALSE, tail |-> t] : t \in [1..(dims - Len(words)) -> I16Words]}
         \cup {[crash |-> TRUE, tail |-> <<>>]}

EngineRead(words, dims, tail) ==
    [j \in 1..dims |-> IF j <= Len(words) THEN words[j] ELSE tail[j - Len(words)]]

ErrDuplicate == "Duplicate keys not allowed"
ErrCapacity == "Reserve capacity ahead of insertions"
ErrAlloc == "Out of memory"
ErrRename == "Renaming impossible, the key is already in use"
ErrStream == "Stored configuration does not match"
ErrIO == "I/O failure"

\* add: fails on a duplicate key when multi is false, when no reserved slot
\* is left, or on an allocation failure (oom); otherwise stores the vector
\* under the key. The engine is internally synchronized: one add is atomic.
EngineAdd(st, capacity, multi, key, vec, oom) ==
    IF ~multi /\ EngineContains(st, key)
    THEN [r |-> ErrDuplicate, store |-> st]
    ELSE IF EngineSize(st) >= capacity
    THEN [r |-> ErrCapacity, store |-> st]
    ELSE IF oom
    THEN [r |-> ErrAlloc, store |-> st]
    ELSE [r |-> "Ok", store |-> [st EXCEPT ![key] = Append(@, vec)]]

\* reserve(n): n is the desired total capacity, including the current size;
\* storage only grows. Fails on an allocation failure.
EngineReserve(capacity, n, oom) ==
    IF n <= capacity THEN [r |-> "Ok", capacity |-> capacity]
    ELSE IF oom THEN [r |-> ErrAlloc, capacity |-> capacity]
    ELSE [r |-> "Ok", capacity |-> n]

\* get(key, buffer): copies the scalars of the first vector stored under
\* key into the buffer and returns the count written; an absent key yields 0.
EngineGet(st, key) ==
    IF EngineContains(st, key)
    THEN [n |-> Len(Head(st[key])), words |-> Head(st[key])]
    ELSE [n |-> 0, words |-> <<>>]

\* remove(key): removes all vectors under key, returns the count removed
EngineRemove(st, key) ==
    [n |-> Len(st[key]), store |-> [st EXCEPT ![key] = <<>>]]

\* rename(from, to): reassigns the key label; refused when the target key
\* is in use and multi is false.
EngineRename(st, multi, from, to) ==
    IF ~EngineContains(st, from) THEN [r |-> "Ok", n |-> 0, store |-> st]
    ELSE IF from = to THEN [r |-> "Ok", n |-> Len(st[from]), store |-> st]
    ELSE IF ~multi /\ EngineContains(st, to)
    THEN [r |-> ErrRename, n |-> 0, store |-> st]
    ELSE [r |-> "Ok", n |-> Len(st[from]),
          store |-> [st EXCEPT ![to] = st[to] \o st[from], ![from] = <<>>]]
\* construct(options): rejects an unknown metric, which has no distance
\* function of its own
EngineConstruct(options) ==
    IF options.metric = "Unknown" THEN "Metric won't be initialized" ELSE "Ok"

\* A serialized index: the configuration it was written with and its vectors
NoStream == [dimensions |-> 0, quantization |-> "none", vectors |-> EmptyStore]

\* load / view: the stored configuration must match the index's
\* (dimensions, quantization), or the operation fails; an I/O failure (io)
\* fails it too. On success the stored vectors replace the index's.
EngineLoad(options, st, capacity, stream, io) ==
    IF io THEN [r |-> ErrIO, store |-> st, capacity |-> capacity]
    ELSE IF stream.dimensions # options.dimensions
            \/ stream.quantization # options.quantization
    THEN [r |-> ErrStream, store |-> st, capacity |-> capacity]
    ELSE [r |-> "Ok", store |-> stream.vectors,
          capacity |-> IF EngineSize(stream.vectors) > capacity
                       THEN EngineSize(stream.vectors) ELSE capacity]

\* ------------------------------------------------------------ addresses
\* A usize word holds the address of a function or of a place in memory.
\* The Index value lives at one of DataAddrs; a move may put it at another.
DataAddrs == {"slot1", "slot2"}
NullAddr == "null"
MetricTrampolineAddr == "&change_metric::trampoline"
FilterTrampolineAddr == "&filtered_search::trampoline::<F>"
FilterAddr == "&filter"
CodeAddrs == {MetricTrampolineAddr, FilterTrampolineAddr}

NoCustom == [fn |-> NullAddr, ctx |-> NullAddr]
NoIndex == [inner |-> "none", metric_fn |-> NoClosure, addr |-> NullAddr]

\* -------------------------------------------------------------- state
VARIABLES
    T,        \* the facade's scalar type parameter
    M,        \* the facade's metric type parameter
    pc,       \* "none" before construction, "idle" between calls, "batch"
              \* and "fsearch" inside a call, "crashed" after a fault
    ctor,     \* the constructor call that made the facade
    index,    \* the Index value: its metric_fn field and where it lives
    opts,     \* the engine's configuration (IndexOptions)
    store,    \* the engine's vectors: key -> the i16 vectors stored under it
    cap,      \* the engine's capacity()
    custom,   \* the engine's registered custom metric: (fn pointer, context)
    batch,    \* batch_insert: the batch of the call in flight (or the last)
    bstat,    \* batch_insert: per pair, "pending", "running" or its result
    bfull,    \* batch_insert: try_for_each has seen an error
    nadd,     \* batch_insert: engine add calls made by the call
    snap,     \* batch_insert: size() and capacity() when the call began
    fs,       \* filtered_search: the call in flight
    tcall,    \* the last trampoline invocation by the engine
    ret       \* the last call of the facade and what it returned

vars == <<T, M, pc, ctor, index, opts, store, cap, custom, batch, bstat,
          bfull, nadd, snap, fs, tcall, ret>>

NoOpts == [dimensions |-> 0, metric |-> "Unknown", quantization |-> "none",
           connectivity |-> 0, expansion_add |-> 0, expansion_search |-> 0,
           multi |-> FALSE]

NoCall == [kind |-> "none", callee |-> "none", key |-> 0, alive |-> FALSE,
           result |-> FALSE]

NoSearch == [count |-> 0, predicate |-> {}, fn |-> NullAddr, ctx |-> NullAddr,
             candidates |-> {}, keys |-> <<>>, alive |-> FALSE]

NoSnap == [size |-> 0, capacity |-> 0, reserves |-> 0, reserve |-> "none"]

\* A call's record: the operation, its result ("Ok" or the error), the
\* engine entry point it dispatched to, and its arguments and outputs.
Ret(op, r, entry) ==
    [op |-> op, r |-> r, entry |-> entry, key |-> 0, vec |-> <<>>, n |-> 0,
     keys |-> <<>>, stream |-> NoStream, m |-> "none"]

Init ==
    /\ T \in ScalarTypes
    /\ M \in MetricTypes
    /\ pc = "none"
    /\ ctor = [op |-> "none", multi |-> FALSE]
    /\ index = NoIndex
    /\ opts = NoOpts
    /\ store = EmptyStore
    /\ cap = 0
    /\ custom = NoCustom
    /\ batch = <<>>
    /\ bstat = <<>>
    /\ bfull = FALSE
    /\ nadd = 0
    /\ snap = NoSnap
    /\ fs = NoSearch
    /\ tcall = NoCall
    /\ ret = Ret("none", "Ok", "none")

\* No batch_insert and no filtered_search is in flight once a call returns
NoBatch ==
    /\ batch' = <<>>
    /\ bstat' = <<>>
    /\ bfull' = FALSE
    /\ nadd' = 0
    /\ snap' = NoSnap

\* --------------------------------------------- custom metric registration
\* <f16 as VectorType>::change_metric and <bf16 as VectorType>::change_metric:
\* store the closure in index.metric_fn, then hand the engine the trampoline
\* and the address of the closure slot inside the Index value.
VT_change_metric(idx, metric) ==
    LET stored == [idx EXCEPT !.metric_fn = metric]
    IN [index |-> stored,
        custom |-> [fn |-> MetricTrampolineAddr, ctx |-> stored.addr]]

\* ------------------------------------------------------------ construction
\* (mutant) new drops its multi argument and always allows several
\* vectors per key
NewOptions_multi(t, m, connectivity, expansion_add, expansion_search, multi) ==
    [dimensions |-> D, metric |-> get_kind(m), quantization |-> quant_type(t),
     connectivity |-> connectivity, expansion_add |-> expansion_add,
     expansion_search |-> expansion_search, multi |-> TRUE]

\* (mutant) new hard-codes the quantization of another scalar type
NewOptions_f32(t, m, connectivity, expansion_add, expansion_search, multi) ==
    [dimensions |-> D, metric |-> get_kind(m), quantization |-> "F32",
     connectivity |-> connectivity, expansion_add |-> expansion_add,
     expansion_search |-> expansion_search, multi |-> multi]

\* IndexOptions as HighLevel::new builds them
NewOptions(t, m, connectivity, expansion_add, expansion_search, multi) ==
    [dimensions |-> D, metric |-> get_kind(m), quantization |-> quant_type(t),
     connectivity |-> connectivity, expansion_add |-> expansion_add,
     expansion_search |-> expansion_search, multi |-> multi]

\* IndexOptions as HighLevel::try_default builds them, from
\* IndexOptions::default()
DefaultOptions(t, m) ==
    [NoOpts EXCEPT !.dimensions = D, !.metric = get_kind(m),
                   !.quantization = quant_type(t)]

\* HighLevel::make_index: Index::new, then the metric type's custom metric
\* is installed on the local Index, which is then moved into the facade
\* (from local to final; the two may coincide when the move is elided).
make_index(options, call, local, final) ==
    /\ pc = "none"
    /\ IF EngineConstruct(options) # "Ok"
       THEN /\ ret' = Ret(call.op, EngineConstruct(options), "new_native_index")
            /\ UNCHANGED <<pc, ctor, index, opts, custom>>
       ELSE LET fresh == [inner |-> "engine", metric_fn |-> NoClosure,
                          addr |-> local]
                reg == IF custom_metric(M) # NoClosure
                       THEN VT_change_metric(fresh, custom_metric(M))
                       ELSE [index |-> fresh, custom |-> NoCustom]
            IN /\ index' = [reg.index EXCEPT !.addr = final]
               /\ custom' = reg.custom
               /\ opts' = options
               /\ ctor' = call
               /\ pc' = "idle"
               /\ ret' = Ret(call.op, "Ok", "new_native_index")
    /\ UNCHANGED <<T, M, store, cap, batch, bstat, bfull, nadd, snap, fs, tcall>>

Expansions == {0}

new(multi, A) ==
    \E c \in Expansions, ea \in Expansions, es \in Expansions :
    \E local \in A, final \in A :
        make_index(NewOptions(T, M, c, ea, es, multi),
                   [op |-> "new", multi |-> multi], local, final)

try_default(A) ==
    \E local \in A, final \in A :
        make_index(DefaultOptions(T, M),
                   [op |-> "try_default", multi |-> FALSE], local, final)
\* ------------------------------------------------- the metric trampoline
\* Calling a word as a function pointer: the function at that address when
\* the word is the address of one; undefined behaviour when it is the
\* address of data, which faults or runs whatever bytes lie there.
CallFnPtr(word) ==
    IF word \in CodeAddrs
    THEN {[callee |-> word, crash |-> FALSE]}
    ELSE {[callee |-> "garbage", crash |-> FALSE],
          [callee |-> "fault", crash |-> TRUE]}

\* The trampoline of <f16 as VectorType>::change_metric (and of bf16's):
\* transmutes closure_address into a fn(*const f16, *const f16) -> Distance
\* and calls it on the two vector pointers.
metric_trampoline(closure_address) == CallFnPtr(closure_address)

\* The engine measuring a distance: the builtin kernel of its metric kind,
\* or, with a custom metric registered, a call of the registered function
\* pointer with the registered context word.
EngineDistance(cst, idx, tc) ==
    IF cst = NoCustom
    THEN {[crash |-> FALSE, tcall |-> tc]}
    ELSE {[crash |-> o.crash,
           tcall |-> [kind |-> "metric", callee |-> o.callee, key |-> 0,
                      alive |-> (idx.addr = cst.ctx), result |-> FALSE]]
          : o \in (IF cst.fn = MetricTrampolineAddr
                   THEN metric_trampoline(cst.ctx)
                   ELSE CallFnPtr(cst.fn))}

\* One add on the engine, with everything it may come to: the words read
\* from the slice's data pointer, the distances measured against the
\* vectors already stored, the insertion.
\* A refused add (duplicate key, no slot, no memory) reads nothing.
EngineAddOutcomes(st, capacity, options, cst, idx, tc, key, words, oom) ==
    { LET refused == EngineAdd(st, capacity, options.multi, key, <<>>, oom)
          measured == EngineSize(st) > 0 /\ cst # NoCustom
      IN IF refused.r # "Ok" THEN [r |-> refused.r, store |-> st, tcall |-> tc]
         ELSE IF ob.crash THEN [r |-> "crash", store |-> st, tcall |-> tc]
         ELSE IF measured /\ mo.crash
         THEN [r |-> "crash", store |-> st, tcall |-> mo.tcall]
         ELSE [r |-> "Ok",
               store |-> EngineAdd(st, capacity, options.multi, key,
                             EngineRead(words, options.dimensions, ob.tail),
                             oom).store,
               tcall |-> IF measured THEN mo.tcall ELSE tc]
      : ob \in OutOfBounds(words, options.dimensions),
        mo \in EngineDistance(cst, idx, tc) }

\* <f16 as VectorType>::add and <bf16 as VectorType>::add: the slice is cast
\* to i16 words and handed to the engine's add_f16.
VT_add(t, key, vector) ==
    [entry |-> "add_f16", key |-> key, words |-> to_i16s(vector)]

\* <f16 as VectorType>::get and <bf16 as VectorType>::get: the engine's
\* get_f16 writes i16 words into the caller's buffer, seen as i16.
VT_get(t, st, key) ==
    LET got == EngineGet(st, key)
    IN [entry |-> "get_f16", n |-> got.n, vector |-> from_i16s(got.words)]

\* ------------------------------------------------------ facade operations
\* HighLevel::reserve
reserve(n, oom) ==
    /\ pc = "idle"
    /\ LET res == EngineReserve(cap, n, oom)
       IN /\ cap' = res.capacity
          /\ ret' = [Ret("reserve", res.r, "reserve") EXCEPT !.n = n]
    /\ NoBatch
    /\ UNCHANGED <<T, M, pc, ctor, index, opts, store, custom, fs, tcall>>

\* HighLevel::add
add(key, vector, oom) ==
    /\ pc = "idle"
    /\ LET call == VT_add(T, key, vector)
       IN \E out \in EngineAddOutcomes(store, cap, opts, custom, index, tcall,
                                       call.key, call.words, oom) :
            /\ store' = out.store
            /\ tcall' = out.tcall
            /\ pc' = IF out.r = "crash" THEN "crashed" ELSE pc
            /\ ret' = [Ret("add", out.r, call.entry)
                         EXCEPT !.key = key, !.n = Len(vector)]
    /\ NoBatch
    /\ UNCHANGED <<T, M, ctor, index, opts, cap, custom, fs>>

\* HighLevel::get, with a buffer of D scalars
get(key) ==
    /\ pc = "idle"
    /\ LET got == VT_get(T, store, key)
       IN ret' = [Ret("get", "Ok", got.entry)
                    EXCEPT !.key = key, !.n = got.n, !.vec = got.vector]
    /\ NoBatch
    /\ UNCHANGED <<T, M, pc, ctor, index, opts, store, cap, custom, fs, tcall>>

\* HighLevel::remove
remove(key) ==
    /\ pc = "idle"
    /\ LET res == EngineRemove(store, key)
       IN /\ store' = res.store
          /\ ret' = [Ret("remove", "Ok", "remove") EXCEPT !.key = key, !.n = res.n]
    /\ NoBatch
    /\ UNCHANGED <<T, M, pc, ctor, index, opts, cap, custom, fs, tcall>>

\* HighLevel::rename
rename(from, to) ==
    /\ pc = "idle"
    /\ LET res == EngineRename(store, opts.multi, from, to)
       IN /\ store' = res.store
          /\ ret' = [Ret("rename", res.r, "rename")
                       EXCEPT !.key = from, !.n = res.n, !.keys = <<to>>]
    /\ NoBatch
    /\ UNCHANGED <<T, M, pc, ctor, index, opts, cap, custom, fs, tcall>>

\* HighLevel::reset: erases all members, returns the memory
reset ==
    /\ pc = "idle"
    /\ store' = EmptyStore
    /\ cap' = 0
    /\ ret' = Ret("reset", "Ok", "reset")
    /\ NoBatch
    /\ UNCHANGED <<T, M, pc, ctor, index, opts, custom, fs, tcall>>

\* The accessors of the facade
size == EngineSize(store)

capacity == cap

dimensions == opts.dimensions

contains(key) == EngineContains(store, key)

count(key) == EngineCount(store, key)

\* ------------------------------------------------------------ change_metric
\* The engine's change_metric_kind: the comparison function becomes the
\* builtin one of the kind; vectors are not recomputed.
EngineChangeMetricKind(options, kind) ==
    [opts |-> [options EXCEPT !.metric = kind], custom |-> NoCustom]

\* The metric type whose custom_metric HighLevel::change_metric installs
ChangeMetricSource(m, nm) == custom_metric(m)

\* HighLevel::change_metric::<Nm>: consumes self; the Index is moved into a
\* local, rebound, and moved into the new facade.
change_metric(nm, local, final) ==
    /\ pc = "idle"
    /\ LET moved == [index EXCEPT !.addr = local]
           kind == EngineChangeMetricKind(opts, get_kind(nm))
           closure == ChangeMetricSource(M, nm)
           reg == IF closure # NoClosure
                  THEN VT_change_metric(moved, closure)
                  ELSE [index |-> moved, custom |-> kind.custom]
       IN /\ opts' = kind.opts
          /\ custom' = reg.custom
          /\ index' = [reg.index EXCEPT !.addr = final]
    /\ M' = nm
    /\ ret' = [Ret("change_metric", "Ok", "change_metric") EXCEPT !.m = nm]
    /\ NoBatch
    /\ UNCHANGED <<T, pc, ctor, store, cap, fs, tcall>>
\* ------------------------------------------------------------ batch_insert
Pairs == [key : Keys, vec : InputVectors]

RECURSIVE SeqsUpTo(_, _)
SeqsUpTo(S, n) ==
    IF n = 0 THEN {<<>>}
    ELSE LET shorter == SeqsUpTo(S, n - 1)
         IN shorter \cup {Append(q, x) : q \in {r \in shorter : Len(r) = n - 1}, x \in S}

Batches == SeqsUpTo(Pairs, MaxBatch)

\* (mutant) the reserve falls one slot short of the batch
BatchReserveArg_short(b) == Len(b) - 1

\* let len = batch.len(); self.reserve(len)
BatchReserveArg(b) == Len(b)

Running(stat) == {i \in DOMAIN stat : stat[i] = "running"}

Pending(stat) == {i \in DOMAIN stat : stat[i] = "pending"}

Succeeded(stat) == {i \in DOMAIN stat : stat[i] = "Ok"}

Failed(stat) == DOMAIN stat \ (Running(stat) \cup Pending(stat) \cup Succeeded(stat))

\* (mutant) for_each in place of try_for_each: the errors are dropped
TryForEachResult_dropped(stat) == {"Ok"}

\* What par_iter().try_for_each(..)? yields once the workers have joined:
\* Ok when no closure call failed, else the error of one that did.
TryForEachResult(stat) ==
    IF Failed(stat) = {} THEN {"Ok"} ELSE {stat[i] : i \in Failed(stat)}

\* try_for_each may hand a worker the next pair: none once an error was seen
MayStart(stat, full, i) ==
    /\ stat[i] = "pending"
    /\ ~full
    /\ Cardinality(Running(stat)) < NumWorkers

\* (mutant) no join: the call returns while closure calls are running
MayReturn_nojoin(stat, full) == Pending(stat) = {} \/ full

\* try_for_each may return: every started closure call has finished, and no
\* pair is left unless an error was seen
MayReturn(stat, full) ==
    /\ Running(stat) = {}
    /\ Pending(stat) = {} \/ full

\* (mutant) the result of the reserve is discarded: no ? on it
ReserveErr_ignored(r) == FALSE

\* self.reserve(len)?: an Err of the reserve returns from batch_insert
ReserveErr(r) == r # "Ok"

\* HighLevel::batch_insert up to the fork: the reserve, and the ? on it
batch_insert(b, oom) ==
    /\ pc = "idle"
    /\ LET res == EngineReserve(cap, BatchReserveArg(b), oom)
       IN /\ cap' = res.capacity
          /\ IF ~ReserveErr(res.r)
             THEN /\ pc' = "batch"
                  /\ ret' = [Ret("batch_insert", "pending", "reserve")
                               EXCEPT !.n = Len(b)]
                  /\ batch' = b
                  /\ bstat' = [i \in 1..Len(b) |-> "pending"]
                  /\ bfull' = FALSE
                  /\ nadd' = 0
                  /\ snap' = [size |-> size, capacity |-> cap,
                               reserves |-> 1, reserve |-> res.r]
             ELSE /\ pc' = "idle"
                  /\ ret' = [Ret("batch_insert", res.r, "reserve")
                               EXCEPT !.n = Len(b)]
                  /\ NoBatch
    /\ UNCHANGED <<T, M, ctor, index, opts, store, custom, fs, tcall>>

\* A worker of the pool takes pair i
worker_start(i) ==
    /\ pc = "batch"
    /\ MayStart(bstat, bfull, i)
    /\ bstat' = [bstat EXCEPT ![i] = "running"]
    /\ UNCHANGED <<T, M, pc, ctor, index, opts, store, cap, custom, batch,
                   bfull, nadd, snap, fs, tcall, ret>>

\* The closure of try_for_each on pair i: self.index.add(*key, &value)
worker_add(i, oom) ==
    /\ pc = "batch"
    /\ bstat[i] = "running"
    /\ LET call == VT_add(T, batch[i].key, batch[i].vec)
       IN \E out \in EngineAddOutcomes(store, cap, opts, custom, index, tcall,
                                       call.key, call.words, oom) :
            /\ store' = out.store
            /\ tcall' = out.tcall
            /\ pc' = IF out.r = "crash" THEN "crashed" ELSE pc
            /\ bstat' = [bstat EXCEPT ![i] = out.r]
            /\ bfull' = (bfull \/ out.r # "Ok")
    /\ nadd' = nadd + 1
    /\ UNCHANGED <<T, M, ctor, index, opts, cap, custom, batch, snap, fs, ret>>

\* The join: try_for_each returns, the ? propagates its error, else Ok(())
batch_insert_return ==
    /\ pc = "batch"
    /\ MayReturn(bstat, bfull)
    /\ pc' = "idle"
    /\ \E r \in TryForEachResult(bstat) :
         ret' = [Ret("batch_insert", r, "add_f16") EXCEPT !.n = Len(batch)]
    /\ NoBatch
    /\ UNCHANGED <<T, M, ctor, index, opts, store, cap, custom, fs, tcall>>
\* ------------------------------------------------------------------ search
RECURSIVE SetToSeq(_)
SetToSeq(S) ==
    IF S = {} THEN <<>>
    ELSE LET k == CHOOSE x \in S : \A y \in S : x <= y
         IN <<k>> \o SetToSeq(S \ {k})

Present(st) == {k \in Keys : EngineContains(st, k)}

\* largest count handed to a search
MaxCount == 2

\* <f16 as VectorType>::search and <bf16 as VectorType>::search
VT_search(t, query, n) ==
    [entry |-> "search_f16", words |-> to_i16s(query), count |-> n]

\* HighLevel::search: up to count approximate nearest keys
search(query, n) ==
    /\ pc = "idle"
    /\ LET call == VT_search(T, query, n)
           measured == size > 0 /\ custom # NoCustom
       IN \E ob \in OutOfBounds(call.words, opts.dimensions),
             mo \in EngineDistance(custom, index, NoCall),
             found \in SUBSET Present(store) :
            /\ Cardinality(found) <= call.count
            /\ pc' = IF ob.crash \/ (measured /\ mo.crash) THEN "crashed" ELSE pc
            /\ tcall' = IF ~ob.crash /\ measured THEN mo.tcall ELSE NoCall
            /\ ret' = IF ob.crash \/ (measured /\ mo.crash)
                      THEN [Ret("search", "crash", call.entry) EXCEPT !.n = n]
                      ELSE [Ret("search", "Ok", call.entry)
                              EXCEPT !.n = n, !.keys = SetToSeq(found)]
    /\ NoBatch
    /\ UNCHANGED <<T, M, ctor, index, opts, store, cap, custom, fs>>

\* --------------------------------------------------------- filtered_search
\* A filter closure is the set of keys it accepts
Predicates == SUBSET Keys

\* (mutant) the trampoline ignores the closure and accepts every key
filter_trampoline_any(key, closure_address, frame) ==
    {[callee |-> "filter", result |-> TRUE, crash |-> FALSE]}

\* The trampoline::<F> of <f16 as VectorType>::filtered_search (and of
\* bf16's): reads closure_address as a *const F and calls the closure there
\* on the key. With no live closure at that address the read is undefined.
filter_trampoline(key, closure_address, frame) ==
    IF frame.alive /\ closure_address = FilterAddr
    THEN {[callee |-> "filter", result |-> (key \in frame.predicate),
           crash |-> FALSE]}
    ELSE {[callee |-> "garbage", result |-> b, crash |-> FALSE] : b \in BOOLEAN}
         \cup {[callee |-> "fault", result |-> FALSE, crash |-> TRUE]}

\* <f16 as VectorType>::filtered_search and bf16's: the engine is handed the
\* trampoline and the address of the filter, which lives in this frame.
VT_filtered_search(t, query, n) ==
    [entry |-> "filtered_search_f16", words |-> to_i16s(query), count |-> n,
     fn |-> FilterTrampolineAddr, ctx |-> FilterAddr]

\* HighLevel::filtered_search, up to the engine call
filtered_search(query, n, filter) ==
    /\ pc = "idle"
    /\ LET call == VT_filtered_search(T, query, n)
       IN \E ob \in OutOfBounds(call.words, opts.dimensions),
             candidates \in SUBSET Present(store) :
            /\ pc' = IF ob.crash THEN "crashed" ELSE "fsearch"
            /\ fs' = [count |-> call.count, predicate |-> filter,
                      fn |-> call.fn, ctx |-> call.ctx,
                      candidates |-> candidates, keys |-> <<>>, alive |-> TRUE]
            /\ ret' = [Ret("filtered_search", IF ob.crash THEN "crash" ELSE "pending",
                           call.entry) EXCEPT !.n = n]
    /\ tcall' = NoCall
    /\ NoBatch
    /\ UNCHANGED <<T, M, ctor, index, opts, store, cap, custom>>

\* The engine, inside the call, measures a candidate and screens its key
\* with the function pointer and context word it was handed
engine_visit(k) ==
    /\ pc = "fsearch"
    /\ k \in fs.candidates
    /\ Len(fs.keys) < fs.count
    /\ \E mo \in EngineDistance(custom, index, tcall),
          o \in (IF fs.fn = FilterTrampolineAddr
                 THEN filter_trampoline(k, fs.ctx, fs)
                 ELSE {[callee |-> c.callee, result |-> FALSE, crash |-> c.crash]
                       : c \in CallFnPtr(fs.fn)}) :
         IF custom # NoCustom /\ mo.crash
         THEN /\ pc' = "crashed"
              /\ tcall' = mo.tcall
              /\ fs' = fs
         ELSE /\ pc' = IF o.crash THEN "crashed" ELSE pc
              /\ tcall' = [kind |-> "filter", callee |-> o.callee, key |-> k,
                           alive |-> fs.alive, result |-> o.result]
              /\ fs' = [fs EXCEPT !.candidates = @ \ {k},
                                  !.keys = IF o.result /\ ~o.crash
                                           THEN Append(@, k) ELSE @]
    /\ UNCHANGED <<T, M, ctor, index, opts, store, cap, custom, batch, bstat,
                   bfull, nadd, snap, ret>>

\* The engine call returns its Matches; the frame, and the filter in it, go
filtered_search_return ==
    /\ pc = "fsearch"
    /\ fs.candidates = {} \/ Len(fs.keys) >= fs.count
    /\ pc' = "idle"
    /\ ret' = [Ret("filtered_search", "Ok", "filtered_search_f16")
                 EXCEPT !.n = fs.count, !.keys = fs.keys]
    /\ fs' = NoSearch
    /\ UNCHANGED <<T, M, ctor, index, opts, store, cap, custom, batch, bstat,
                   bfull, nadd, snap, tcall>>

\* ------------------------------------------------------------- persistence
\* The streams a caller may hand to load and view: written with this
\* facade's configuration or with another dimension or quantization
StreamVectors(d) ==
    {[EmptyStore EXCEPT ![1] = <<[j \in 1..d |-> BitsToI16(HalfOne)]>>]}

Streams ==
    UNION {[dimensions : {d}, quantization : ScalarKinds, vectors : StreamVectors(d)]
           : d \in {D, D + 1}}

\* HighLevel::save and HighLevel::save_to_buffer: the engine serializes its
\* configuration and vectors
Save(op, io) ==
    /\ pc = "idle"
    /\ ret' = IF io THEN Ret(op, ErrIO, op)
              ELSE [Ret(op, "Ok", op)
                      EXCEPT !.stream = [dimensions |-> opts.dimensions,
                                         quantization |-> opts.quantization,
                                         vectors |-> store]]
    /\ NoBatch
    /\ UNCHANGED <<T, M, pc, ctor, index, opts, store, cap, custom, fs, tcall>>

save(io) == Save("save", io)

save_to_buffer(io) == Save("save_to_buffer", io)

\* HighLevel::load, view, load_from_buffer and view_from_buffer hand the
\* path or buffer to the engine
Load(op, stream, io) ==
    /\ pc = "idle"
    /\ LET res == EngineLoad(opts, store, cap, stream, io)
       IN /\ store' = res.store
          /\ cap' = res.capacity
          /\ ret' = [Ret(op, res.r, op) EXCEPT !.stream = stream]
    /\ NoBatch
    /\ UNCHANGED <<T, M, pc, ctor, index, opts, custom, fs, tcall>>

load(stream, io) == Load("load", stream, io)

view(stream, io) == Load("view", stream, io)

load_from_buffer(stream, io) == Load("load_from_buffer", stream, io)

view_from_buffer(stream, io) == Load("view_from_buffer", stream, io)

\* ------------------------------------------------------- specifications
\* The engine's allocations succeed (NoFaults) or may fail (Faults)
NoFaults == {FALSE}
Faults == BOOLEAN

Construct(A) ==
    \/ \E multi \in BOOLEAN : new(multi, A)
    \/ try_default(A)

Insert(F, V) ==
    \/ \E n \in 0..MaxReserve, oom \in F : reserve(n, oom)
    \/ \E k \in Keys, v \in V, oom \in F : add(k, v, oom)

Mutate(F) ==
    \/ Insert(F, InputVectors)
    \/ \E k \in Keys : remove(k)
    \/ \E from \in Keys, to \in Keys : rename(from, to)

BatchInsert(F) ==
    \/ \E b \in Batches, oom \in F : batch_insert(b, oom)
    \/ \E i \in DOMAIN bstat : worker_start(i)
    \/ \E i \in DOMAIN bstat, oom \in F : worker_add(i, oom)
    \/ batch_insert_return

\* Insertion, one call at a time and in batches, on a facade with a builtin
\* metric
InitBatch == Init /\ M = "Cos"

OneAddr == {"slot1"}

NextBatch == Construct(OneAddr) \/ Mutate(NoFaults) \/ BatchInsert(NoFaults)

SpecBatch == InitBatch /\ [][NextBatch]_vars

NextBatchFaults ==
    Construct(OneAddr) \/ Mutate(Faults) \/ BatchInsert(Faults)

SpecBatchFaults == InitBatch /\ [][NextBatchFaults]_vars

Search(V) ==
    \E q \in V, n \in 0..MaxCount : search(q, n)

Get ==
    \E k \in Keys : get(k)

FilteredSearch(V) ==
    \/ \E q \in V, n \in 0..MaxCount, f \in Predicates :
          filtered_search(q, n, f)
    \/ \E k \in Keys : engine_visit(k)
    \/ filtered_search_return

ChangeMetric(A) ==
    \E nm \in MetricTypes, local \in A, final \in A : change_metric(nm, local, final)

Persist(F) ==
    \/ \E io \in F : save(io)
    \/ \E io \in F : save_to_buffer(io)
    \/ \E st \in Streams, io \in F : load(st, io)
    \/ \E st \in Streams, io \in F : view(st, io)
    \/ \E st \in Streams, io \in F : load_from_buffer(st, io)
    \/ \E st \in Streams, io \in F : view_from_buffer(st, io)
    \/ reset

\* One vector of length D, and with it one that is too short
OneVector == {<<HalfOne, HalfMinusOne>>}
ProbeVectors == {<<HalfOne, HalfMinusOne>>, <<HalfOne>>}

\* Metric changes and the custom metric's trampoline, for every metric type
\* and every place the Index value may live
NextMetric ==
    \/ Construct(DataAddrs)
    \/ Insert(NoFaults, OneVector)
    \/ Search(OneVector)
    \/ ChangeMetric(DataAddrs)

SpecMetric == Init /\ [][NextMetric]_vars

\* Searches, plain and filtered, on a facade with a builtin metric
NextSearch ==
    \/ Construct(OneAddr)
    \/ Insert(NoFaults, OneVector)
    \/ Search(ProbeVectors)
    \/ FilteredSearch(ProbeVectors)

SpecSearch == InitBatch /\ [][NextSearch]_vars

\* The calls that hand half-precision words to the engine or take them
\* back: add, get, search and filtered_search, for f16 and for bf16
NextHalf ==
    \/ Construct(OneAddr)
    \/ Insert(NoFaults, OneVector)
    \/ Get
    \/ Search(OneVector)
    \/ FilteredSearch(OneVector)

SpecHalf == InitBatch /\ [][NextHalf]_vars

\* Construction, metric changes and persistence: what sets or could replace
\* the engine's configuration
NextPersist ==
    \/ Construct(OneAddr)
    \/ Insert(NoFaults, OneVector)
    \/ ChangeMetric(OneAddr)
    \/ Persist(Faults)

SpecPersist == Init /\ [][NextPersist]_vars

\* The whole facade
Next ==
    \/ Construct(DataAddrs)
    \/ Mutate(Faults)
    \/ BatchInsert(Faults)
    \/ Search(InputVectors)
    \/ Get
    \/ FilteredSearch(InputVectors)
    \/ ChangeMetric(DataAddrs)
    \/ Persist(Faults)

Spec == Init /\ [][Next]_vars
\* ================================================================ claims
\* Steps of batch_insert as seen from outside: the call returns after the
\* join (BatchReturns), or at once with the error of its reserve
\* (BatchReserveFails).
BatchReturns == pc = "batch" /\ pc' = "idle"

BatchReserveFails == pc = "idle" /\ pc' = "idle" /\ ret'.op = "batch_insert"

DistinctKeys(b) ==
    \A i \in DOMAIN b, j \in DOMAIN b : i # j => b[i].key # b[j].key

WellFormed(b) == \A i \in DOMAIN b : Len(b[i].vec) = D

StoredUnder(st, key) == {st[key][j] : j \in DOMAIN st[key]}

\* C1: a batch_insert of N pairs (vectors of length D) with pairwise distinct
\* keys on an empty index returns Ok, whatever the interleaving of the
\* workers, and leaves size() = N with every key of the batch present and
\* get(key) returning the vector inserted under it. (The engine's
\* allocations succeed in SpecBatch.)
C1_BatchOnEmptyIndex ==
    [][ /\ (BatchReturns /\ snap.size = 0 /\ DistinctKeys(batch) /\ WellFormed(batch))
           => /\ ret'.r = "Ok"
              /\ EngineSize(store') = Len(batch)
              /\ \A i \in DOMAIN batch :
                    /\ EngineContains(store', batch[i].key)
                    /\ VT_get(T, store', batch[i].key).vector = batch[i].vec
        /\ (BatchReserveFails => size # 0)
      ]_vars

C1_Witness ==
    /\ pc = "idle"
    /\ ret.op = "batch_insert"
    /\ ret.r = "Ok"
    /\ ret.n = MaxBatch
    /\ size = MaxBatch
    /\ Cardinality({k \in Keys : contains(k)}) = MaxBatch

\* C2: batch_insert returns Ok only if its reserve and the insertion of
\* every pair succeeded; if an insertion fails it returns the error of one
\* of the failed insertions, each pair's add is called at most once (no
\* retry), and every pair whose insertion succeeded is still in the index
\* when the call returns (no rollback).
C2_FailFastNoRollback ==
    [][ /\ BatchReturns =>
            /\ ret'.r = "Ok" => \A i \in DOMAIN batch : bstat[i] = "Ok"
            /\ Failed(bstat) # {} => ret'.r \in {bstat[i] : i \in Failed(bstat)}
            /\ nadd = Cardinality(Succeeded(bstat) \cup Failed(bstat))
            /\ store' = store
            /\ \A i \in Succeeded(bstat) :
                  /\ EngineContains(store', batch[i].key)
                  /\ Len(batch[i].vec) = D
                       => to_i16s(batch[i].vec) \in StoredUnder(store', batch[i].key)
        /\ BatchReserveFails => ret'.r = ErrAlloc /\ store' = store
      ]_vars

C2_Witness ==
    /\ pc = "batch"
    /\ MayReturn(bstat, bfull)
    /\ Succeeded(bstat) # {}
    /\ Failed(bstat) # {}

\* C3 as stated: when batch_insert returns, the insertion of every pair of
\* the batch has run; a failure never causes another pair to be skipped.
C3_NoPairSkipped ==
    [][(BatchReturns /\ DistinctKeys(batch) /\ WellFormed(batch))
          => Pending(bstat) = {}]_vars

\* C3 amended: when batch_insert returns, every insertion that was started
\* has run to completion (none is still running, none was stopped), and a
\* pair is skipped only if an insertion of the batch failed.
C3_StartedRunToCompletion ==
    [][ /\ BatchReturns =>
            /\ Running(bstat) = {}
            /\ Pending(bstat) # {} => Failed(bstat) # {}
        /\ \A i \in DOMAIN bstat :
              (pc = "batch" /\ pc' = "batch" /\ bstat[i] = "running")
                 => bstat'[i] # "pending"
      ]_vars

\* A sibling insertion is still running after a failure was seen
C3_Witness ==
    /\ pc = "batch"
    /\ bfull
    /\ Running(bstat) # {}

\* C4: after the reserve step of batch_insert on an index that holds s
\* vectors, capacity() >= s + n for a batch of n pairs.
C4_ReserveCoversBatch ==
    (pc = "batch" /\ DistinctKeys(batch) /\ WellFormed(batch))
       => capacity >= snap.size + Len(batch)

\* C7: add only inserts vectors whose length equals D: an add with
\* vector.len() # D inserts nothing (it does not return Ok) and leaves the
\* index unchanged.
C7_AddChecksLength ==
    [][ (pc = "idle" /\ ret'.op = "add" /\ ret'.n # D)
           => /\ store' = store
              /\ ret'.r # "Ok"
      ]_vars

\* C8: on a facade constructed with multi = false, count(key) <= 1 for every
\* key in every reachable state (between and inside batch_insert calls), and
\* an add of a key that is present returns an error and leaves the vector
\* stored under it unchanged.
C8_SingleVectorPerKey ==
    /\ [](ctor.multi = FALSE => \A k \in Keys : count(k) <= 1)
    /\ [][ (pc = "idle" /\ ret'.op = "add" /\ ~ctor.multi /\ contains(ret'.key))
              => /\ ret'.r = ErrDuplicate
                 /\ store'[ret'.key] = store[ret'.key]
         ]_vars

\* Two pairs of a batch share a key; one insertion won, the other failed
C8_Witness ==
    /\ pc = "batch"
    /\ ~ctor.multi
    /\ \E i \in DOMAIN batch, j \in DOMAIN batch :
          /\ i # j
          /\ batch[i].key = batch[j].key
          /\ bstat[i] = "Ok"
          /\ bstat[j] = ErrDuplicate
          /\ snap.size = 0
\* C5: change_metric::<Nm> leaves the engine bound to the new metric: its
\* metric kind is Nm::get_kind() and, when Nm supplies a custom distance
\* closure, that closure is the one installed; the engine handle and the
\* stored vectors are as before the call.
C5_ChangeMetricRebinds ==
    [][ (pc = "idle" /\ ret'.op = "change_metric")
           => /\ opts'.metric = get_kind(ret'.m)
              /\ custom_metric(ret'.m) # NoClosure
                   => /\ index'.metric_fn = custom_metric(ret'.m)
                      /\ custom'.fn = MetricTrampolineAddr
              /\ index'.inner = index.inner
              /\ store' = store
      ]_vars

LoadOps == {"load", "view", "load_from_buffer", "view_from_buffer"}

\* C6: in every state reachable from new or try_default the engine's
\* configuration matches the facade's type parameters (dimensions() = D,
\* quantization = T::quant_type()), and a load or view of a stream stored
\* with another dimension or quantization returns an error.
C6_ConfigMatchesTypes ==
    /\ pc # "none" => (dimensions = D /\ opts.quantization = quant_type(T))
    /\ ( /\ ret.op \in LoadOps
         /\ \/ ret.stream.dimensions # D
            \/ ret.stream.quantization # quant_type(T) )
          => ret.r # "Ok"

C6_Witness ==
    /\ ret.op \in LoadOps
    /\ ret.r = ErrStream
    /\ ret.stream.dimensions # D
    /\ size > 0

\* C9: whenever the engine invokes the custom-metric trampoline with the
\* pair registered by change_metric (and the context word is the address
\* of the closure slot of metric_fn), what runs is the closure stored in
\* the index's metric_fn field.
C9_TrampolineCallsClosure ==
    (tcall.kind = "metric" /\ tcall.alive) => tcall.callee = index.metric_fn

\* C10: during filtered_search the filter closure is alive for the whole
\* engine call and is what the engine's context word points to; every
\* invocation of the filter trampoline returns predicate(key) for its key;
\* every key of the returned Matches satisfies the predicate and at most
\* count matches are returned.
C10_FilterScreens ==
    /\ [](pc = "fsearch" => (fs.alive /\ fs.ctx = FilterAddr))
    /\ [][ /\ (pc = "fsearch" /\ pc' # "idle")
              => /\ pc' = "fsearch"
                 /\ tcall'.kind = "filter"
                 /\ tcall'.alive
                 /\ tcall'.callee = "filter"
                 /\ tcall'.result = (tcall'.key \in fs.predicate)
           /\ (pc = "fsearch" /\ pc' = "idle")
              => /\ \A j \in DOMAIN ret'.keys : ret'.keys[j] \in fs.predicate
                 /\ Len(ret'.keys) <= fs.count
                 /\ ret'.r = "Ok"
         ]_vars

\* The engine has screened two candidates: one passed, the last did not
C10_Witness ==
    /\ pc = "fsearch"
    /\ Len(fs.keys) = 1
    /\ tcall.kind = "filter"
    /\ ~tcall.result
    /\ fs.candidates = {}

\* C11: within one batch_insert call reserve is called exactly once and has
\* returned Ok before the first insertion of the batch starts; while the
\* insertions run no reserve takes place (the capacity is not touched); if
\* the reserve fails, batch_insert returns the reserve's error at once, no
\* pair of the batch is inserted and the index content is unchanged.
C11_ReserveOnceBeforeAdds ==
    [][ /\ (pc = "idle" /\ pc' = "batch")
           => /\ snap'.reserves = 1
              /\ snap'.reserve = "Ok"
              /\ nadd' = 0
              /\ Running(bstat') = {}
              /\ Succeeded(bstat') \cup Failed(bstat') = {}
              /\ store' = store
        /\ pc = "batch"
           => /\ snap.reserves = 1
              /\ snap.reserve = "Ok"
              /\ snap' \in {snap, NoSnap}
              /\ cap' = cap
        /\ BatchReserveFails
           => /\ ret'.r = EngineReserve(cap, ret'.n, TRUE).r
              /\ ret'.r # "Ok"
              /\ ret'.entry = "reserve"
              /\ store' = store
              /\ nadd' = 0
              /\ bstat' = <<>>
      ]_vars

\* batch_insert on an index that holds a vector has just returned the error
\* of its reserve
C11_Witness ==
    /\ pc = "idle"
    /\ ret.op = "batch_insert"
    /\ ret.entry = "reserve"
    /\ ret.r = ErrAlloc
    /\ ret.n = MaxBatch
    /\ size > 0

\* C12: whenever a custom metric is installed, in every state in which the
\* engine may call it (make_index or change_metric has returned the facade,
\* the Index value lives in its HighLevel) the context word held by the
\* engine is the current address of the closure slot of that facade's
\* metric_fn, and the slot holds a closure.
C12_ContextWordCurrent ==
    (pc \in {"idle", "batch", "fsearch"} /\ custom # NoCustom)
       => /\ custom.ctx = index.addr
          /\ index.metric_fn # NoClosure

\* The engine entry point of an operation for a binary layout
EntryFor(op, kind) == op \o (IF kind = "F16" THEN "_f16" ELSE "_bf16")

HalfOps == {"add", "get", "search", "filtered_search"}

\* C13: for T in {f16, bf16}, add, get, search and filtered_search dispatch
\* to the engine entry points of the binary layout that T::quant_type()
\* reports, and the 16-bit words pass unchanged: an add of a vector of
\* length D stores the caller's words, and get returns the stored words bit
\* for bit.
C13_HalfPrecisionDispatch ==
    [][ (pc = "idle" /\ ret'.op \in HalfOps /\ ret'.r # "crash")
           => /\ ret'.entry = EntryFor(ret'.op, quant_type(T))
              /\ (ret'.op = "get" /\ contains(ret'.key))
                    => to_i16s(ret'.vec) = Head(store[ret'.key])
              /\ (ret'.op = "add" /\ ret'.r = "Ok")
                    => \E v \in OneVector :
                          to_i16s(v) \in StoredUnder(store', ret'.key)
      ]_vars
====
